---- MODULE Spec2Model ----
(***************************************************************************)
(* InfraX / Brahma: the intelligent-workflow orchestrator, its in-memory   *)
(* workflow history, the HTTP handlers that read the history and edit the  *)
(* generated artifact, and the code generator's file naming.               *)
(*                                                                         *)
(* Python dicts are records; a key that a dict does not hold is a field    *)
(* the record does not have, read with Get (dict.get).  None is the string *)
(* None_.  The Oracle (the hosted model) is the environment: every reply   *)
(* it can give is an input drawn with \E.  datetime.now() formatted to the *)
(* second is the variable clock; timestamps of finer resolution that are   *)
(* only stored in payloads are left out of the payloads.                   *)
(***************************************************************************)
EXTENDS Integers, Sequences, FiniteSets, TLC

(* ------------------------------ bounds --------------------------------- *)
MaxClock == 2      \* the clock runs over 1..MaxClock seconds
MaxRuns == 2       \* workflow requests handled
MaxFaults == 1     \* Oracle calls and file writes that raise inside the runs
MaxLines == 4    \* the longest text handed to _clean_code on its own

None_ == "None"

Errs == {"oracle unavailable"}
Prompts == {<<"Build a small web app">>}
Locations == {"India"}
RepoUrls == {"https://github.com/o/r"}
\* a text is the sequence of its lines; FenceOpen and Fence are the markdown
\* fence lines (three backquotes, with and without a language tag)
FenceOpen == "[fence]hcl"
Fence == "[fence]"
Texts == {<<"resource A">>, <<FenceOpen, "resource A", Fence>>, <<FenceOpen, Fence>>}

VARIABLES
  clock,             \* datetime.now() truncated to the second
  pc,                \* position of the request being handled
  run,               \* locals of execute_intelligent_workflow and its caller
  workflow_history,  \* BrahmaOrchestrator.workflow_history
  files,             \* the file system: path -> content
  dbUp,              \* the database can be reached
  dbWorkflows,       \* rows of table workflows
  code_versions,     \* rows of table code_versions, in insertion order
  resp,              \* the last HTTP response produced by a read or an edit
  log,               \* history variable: what has been called and returned
  call,              \* the last direct call of an agent: its inputs and its result
  faults,            \* Oracle calls and file writes of the runs that have raised
  conversation_history  \* VishuAgent.conversation_history

vars == <<clock, pc, run, workflow_history, files, dbUp, dbWorkflows,
          code_versions, resp, log, call, faults, conversation_history>>

(* ------------------------------ helpers -------------------------------- *)
Get(d, k, default) == IF k \in DOMAIN d THEN d[k] ELSE default

IsExc(x) == "exc" \in DOMAIN x

Upper(s) == IF s = None_ THEN [exc |-> "NoneType object has no attribute upper"]
            ELSE [value |-> s]

Range(s) == {s[i] : i \in 1..Len(s)}

Nil == [nil |-> TRUE]   \* None where a dict, a path or a text is expected

\* dict.get of a key that holds a text (a sequence of lines), None if absent
GetText(d, k) == IF k \in DOMAIN d THEN [text |-> d[k]] ELSE Nil

(* --------------------- the Oracle's possible replies -------------------- *)
(* A reply is the call raising (the API cannot be reached), text that is    *)
(* not JSON, or text that parses as JSON to the value given.                *)
Raise(e) == [kind |-> "raise", error |-> e]
NotJson == [kind |-> "text"]
Json(v) == [kind |-> "json", value |-> v]
JsonList == [json_list |-> TRUE]

Requirements == [app_type |-> "web", components |-> <<"compute">>, scale |-> "small"]
FullAnalysis == [recommended_provider |-> "gcp", recommended_region |-> "asia-south1",
                 location_rationale |-> "Mumbai is closest", requirements |-> Requirements]
NoProvider == [recommended_region |-> "asia-south1", location_rationale |-> "Mumbai is closest",
               requirements |-> Requirements]
NoRegion == [recommended_provider |-> "gcp", location_rationale |-> "Mumbai is closest",
             requirements |-> Requirements]
NoRequirements == [recommended_provider |-> "gcp", recommended_region |-> "asia-south1",
                   location_rationale |-> "Mumbai is closest"]

Svc == [component |-> "web", service |-> "Compute Engine", category |-> "compute"]
Arch == [network_design |-> "one VPC"]

AnalysisReplies == {Raise(e) : e \in Errs} \cup
                   {Json(FullAnalysis), Json(NoRequirements)}
ServicePlanReplies == {Raise(e) : e \in Errs} \cup {Json([services |-> <<Svc>>])}
DesignReplies == {Raise(e) : e \in Errs} \cup {Json(Arch)}
Text(t) == [kind |-> "text", text |-> t]
CostReplies == {Raise(e) : e \in Errs} \cup {Text(<<"Immediate Actions">>)}
SelectionReplies == {Raise(e) : e \in Errs} \cup {Text(<<"Use Cloud Run">>)}
CodeReplies == {Raise(e) : e \in Errs} \cup {Text(t) : t \in Texts}
DiagramReplies == {Raise(e) : e \in Errs} \cup {Text(<<"graph TD">>)}

RaisedIn(reply) == reply.kind = "raise"

\* how many of the replies are the call raising
Raised(replies) == Cardinality({i \in DOMAIN replies : RaisedIn(replies[i])})

\* the replies given to a run stay within the budget of faults, and are counted
Counted(replies) ==
  /\ faults + Raised(replies) <= MaxFaults
  /\ faults' = faults + Raised(replies)

\* a file write that succeeds or raises, as a reply
Write(disk) == [kind |-> IF disk THEN "done" ELSE "raise"]

(* ------------------------- IntelligentPlanner --------------------------- *)
\* sanity variant: the parse error of an answer that is not JSON propagates
_analyze_requirements_propagating(a) ==
  IF a.kind = "raise" THEN [exc |-> a.error]
  ELSE IF a.kind = "text" THEN [exc |-> "Expecting value: line 1 column 1 (char 0)"]
  ELSE IF a.value = JsonList THEN [exc |-> "list indices must be integers or slices, not str"]
  ELSE [success |-> TRUE] @@ a.value

_analyze_requirements(a) ==
  IF a.kind = "raise" THEN [exc |-> a.error]
  ELSE IF a.kind = "text" THEN
    [success |-> TRUE, recommended_provider |-> "aws", recommended_region |-> "us-east-1",
     location_rationale |-> "Default to AWS US East due to parsing error",
     requirements |-> [app_type |-> "general", components |-> <<>>, scale |-> "medium"]]
  ELSE IF a.value = JsonList THEN [exc |-> "list indices must be integers or slices, not str"]
  ELSE [success |-> TRUE] @@ a.value

_create_service_plan(analysis, s) ==
  LET provider == Upper(Get(analysis, "recommended_provider", "aws"))
  IN IF IsExc(provider) THEN provider
     ELSE IF s.kind = "raise" THEN [exc |-> s.error]
     ELSE IF s.kind = "text" THEN [services |-> <<>>, integrations |-> <<>>, security_layers |-> <<>>]
     ELSE s.value

_design_architecture(analysis, service_plan, d) ==
  LET provider == Upper(Get(analysis, "recommended_provider", None_))
  IN IF IsExc(provider) THEN provider
     ELSE IF d.kind = "raise" THEN [exc |-> d.error]
     ELSE IF d.kind = "text" THEN
       [network_design |-> "VPC with public and private subnets",
        data_flow |-> "Standard 3-tier architecture",
        security_zones |-> <<"Public", "Application", "Data">>,
        scalability |-> "Auto-scaling groups",
        availability |-> "Multi-AZ deployment"]
     ELSE d.value

plan_infrastructure(a, s, d) ==
  LET analysis == _analyze_requirements(a)
      service_plan == _create_service_plan(analysis, s)
      architecture == _design_architecture(analysis, service_plan, d)
  IN IF IsExc(analysis) THEN [success |-> FALSE, error |-> analysis.exc]
     ELSE IF IsExc(service_plan) THEN [success |-> FALSE, error |-> service_plan.exc]
     ELSE IF IsExc(architecture) THEN [success |-> FALSE, error |-> architecture.exc]
     ELSE [success |-> TRUE,
           cloud_provider |-> Get(analysis, "recommended_provider", None_),
           region |-> Get(analysis, "recommended_region", None_),
           location_rationale |-> Get(analysis, "location_rationale", None_),
           requirements_analysis |-> Get(analysis, "requirements", Nil),
           service_plan |-> service_plan,
           architecture |-> architecture,
           estimated_components |-> Len(Get(service_plan, "services", <<>>))]

\* the requests plan_infrastructure sends to the Oracle: the analysis, then
\* the service plan unless the analysis raised, then the architecture unless
\* an earlier step raised (upper() of a missing provider raises before the
\* request is built)
OracleRequests(a, s, d) ==
  LET analysis == _analyze_requirements(a)
      service_plan == _create_service_plan(analysis, s)
  IN IF IsExc(analysis) THEN 1
     ELSE IF IsExc(Upper(Get(analysis, "recommended_provider", "aws"))) THEN 1
     ELSE IF IsExc(service_plan) THEN 2
     ELSE IF IsExc(Upper(Get(analysis, "recommended_provider", None_))) THEN 2
     ELSE 3

(* ------------------------ CostOptimizationAgent ------------------------- *)
Lower(t) == CASE t = "Compute" -> "compute"
              [] t = "Storage" -> "storage"
              [] t = "AWS" -> "aws"
              [] OTHER -> t

StrategyTypes == {"compute", "storage", "database", "networking"}

RECURSIVE _calculate_savings(_)
_calculate_savings(services) ==
  IF services = <<>> THEN 0
  ELSE LET service_type == Lower(Get(Head(services), "type", ""))
           credit == CASE service_type = "compute" -> 500
                       [] service_type = "storage" -> 200
                       [] service_type = "database" -> 300
                       [] service_type = "networking" -> 150
                       [] OTHER -> 0
       IN credit + _calculate_savings(Tail(services))

_get_relevant_strategies(services) ==
  {Lower(Get(services[i], "type", "")) : i \in 1..Len(services)} \cap StrategyTypes

analyze_costs(infrastructure, reply) ==
  IF reply.kind = "raise" THEN [success |-> FALSE, error |-> reply.error]
  ELSE [success |-> TRUE,
        cloud_provider |-> Lower(infrastructure.cloud_provider),
        current_cost |-> infrastructure.current_cost,
        estimated_monthly_savings |-> _calculate_savings(infrastructure.services),
        savings_percentage |-> 0,
        optimization_recommendations |-> reply.text,
        strategies |-> _get_relevant_strategies(infrastructure.services)]

(* ------------------------ ServiceSelectionAgent ------------------------- *)
_parse_recommendations(ai_response, cloud_provider) ==
  IF cloud_provider = "gcp" /\ ai_response = <<"Use Cloud Run">>
  THEN <<[category |-> "compute", service |-> "Cloud Run", provider |-> cloud_provider]>>
  ELSE <<>>

analyze_requirements(requirements, reply) ==
  IF reply.kind = "raise" THEN [success |-> FALSE, error |-> reply.error]
  ELSE [success |-> TRUE,
        cloud_provider |-> Lower(requirements.cloud_provider),
        workload_type |-> requirements.workload_type,
        scale |-> requirements.scale,
        recommendations |-> _parse_recommendations(reply.text, Lower(requirements.cloud_provider)),
        ai_analysis |-> reply.text]

(* -------------------------- IaCGenerationAgent -------------------------- *)
StartsWithFence(line) == line \in {FenceOpen, Fence}

\* str.strip() on a text: the blank lines at both ends go
RECURSIVE LStrip(_)
LStrip(t) == IF t # <<>> /\ Head(t) = "" THEN LStrip(Tail(t)) ELSE t
RECURSIVE RStrip(_)
RStrip(t) == IF t # <<>> /\ t[Len(t)] = "" THEN RStrip(SubSeq(t, 1, Len(t) - 1)) ELSE t
Strip(t) == RStrip(LStrip(t))

_clean_code(code) ==
  IF code # <<>> /\ StartsWithFence(code[1])
  THEN LET lines1 == Tail(code)
           lines2 == IF lines1 # <<>> /\ StartsWithFence(lines1[Len(lines1)])
                     THEN SubSeq(lines1, 1, Len(lines1) - 1) ELSE lines1
       IN Strip(lines2)
  ELSE Strip(code)

Extension(iac_tool) == CASE iac_tool = "terraform" -> "tf"
                         [] iac_tool = "cloudformation" -> "yaml"
                         [] iac_tool = "pulumi" -> "py"
                         [] OTHER -> "txt"

\* the file name _save_code gives: provider, tool and the clock's second
_save_code(cloud_provider, iac_tool) ==
  [provider |-> cloud_provider, tool |-> iac_tool, timestamp |-> clock,
   extension |-> Extension(iac_tool)]

CodePath(filename) == [dir |-> "generated_code", file |-> filename]

generate_iac(config, reply) ==
  IF reply.kind = "raise" THEN [success |-> FALSE, error |-> reply.error]
  ELSE LET generated_code == _clean_code(Strip(reply.text))
           filename == _save_code(config.cloud_provider, config.iac_tool)
       IN [success |-> TRUE, code |-> generated_code, filename |-> filename,
           file_path |-> CodePath(filename), cloud_provider |-> config.cloud_provider,
           iac_tool |-> config.iac_tool, services_count |-> Len(config.services)]

(* ---------------------------- DiagramGenerator -------------------------- *)
_save_diagram(cloud_provider) ==
  [provider |-> cloud_provider, tool |-> "diagram", timestamp |-> clock, extension |-> "mmd"]

DiagramPath(filename) == [dir |-> "diagrams", file |-> filename]

generate_diagram(infrastructure_plan, reply) ==
  IF reply.kind = "raise" THEN [success |-> FALSE, error |-> reply.error]
  ELSE LET filename == _save_diagram(infrastructure_plan.cloud_provider)
       IN [success |-> TRUE, diagram_type |-> "mermaid",
           diagram_code |-> _clean_code(Strip(reply.text)),
           filename |-> filename, file_path |-> DiagramPath(filename),
           cloud_provider |-> infrastructure_plan.cloud_provider,
           services_count |-> Len(infrastructure_plan.services)]

\* the path of the viewer, or the exception open() raises (the method has no
\* try block); disk: whether the file can be written
create_interactive_html(mermaid_diagram, cloud_provider, disk) ==
  IF ~disk THEN [exc |-> "No space left on device"]
  ELSE DiagramPath([provider |-> cloud_provider, tool |-> "interactive_diagram",
                    timestamp |-> clock, extension |-> "html"])

Html(mermaid_diagram) == <<"<html>">> \o mermaid_diagram \o <<"</html>">>

(* --------------------------- BrahmaOrchestrator ------------------------- *)
iac_tool == "terraform"

\* the id is the prefix followed by datetime.now() formatted to the second
WorkflowId(t) == [prefix |-> "intelligent_workflow", timestamp |-> t]

\* sanity variant: the stage's error is dropped from the response
_create_error_response_without_details(workflow_id, message, error) ==
  [workflow_id |-> workflow_id, success |-> FALSE, error |-> message,
   error_details |-> None_]

_create_error_response(workflow_id, message, error) ==
  [workflow_id |-> workflow_id, success |-> FALSE, error |-> message,
   error_details |-> error]

\* sanity variant: the failure payload is kept
CostOrDefault_keeping_failure(raw) == raw

\* lines 193-198: a failed cost analysis is replaced by the default
CostOrDefault(raw) ==
  IF raw.success THEN raw ELSE [success |-> TRUE, strategies |-> {}]

\* line 209: the refinement result is kept as the agent returned it
RefinementKept(raw) == raw

NoRun ==
  [workflow_id |-> Nil, prompt |-> <<>>, location |-> None_, repo_url |-> None_,
   repo_analysis |-> Nil, calls |-> <<>>, failed |-> {},
   plan_result |-> Nil, cost_result |-> Nil, services_result |-> Nil,
   iac_result |-> Nil, diagram_result |-> Nil, html_path |-> Nil,
   result |-> Nil, alias |-> 0]

cloud_provider == run.plan_result.cloud_provider
region == run.plan_result.region
services == Get(run.plan_result.service_plan, "services", <<>>)

\* the stage is invoked and reports payload: it joins the calls of the run
Called(stage, payload) ==
  [run EXCEPT !.calls = Append(@, stage),
              !.failed = IF payload.success THEN @ ELSE @ \cup {stage}]

\* execute_intelligent_workflow returns res to its caller; alias is the position
\* in workflow_history of the very dict returned (0: it is not in the history)
Return(r, res, alias) ==
  /\ run' = [r EXCEPT !.result = res, !.alias = alias]
  /\ pc' = "respond"
  /\ log' = [log EXCEPT !.ids = Append(@, res.workflow_id)]

\* sanity variant: the services counted are the refinement's recommendations
Summary_counting_recommendations(r) ==
  [cloud_provider |-> r.plan_result.cloud_provider,
   region |-> r.plan_result.region,
   location_rationale |-> Get(r.plan_result, "location_rationale", None_),
   iac_tool |-> iac_tool,
   services_count |-> Len(Get(r.services_result, "recommendations", <<>>)),
   estimated_savings |-> Get(r.cost_result, "estimated_monthly_savings", 0),
   code_file |-> Get(r.iac_result, "filename", Nil),
   code_path |-> Get(r.iac_result, "file_path", Nil),
   architecture |-> Get(r.plan_result, "architecture", Nil),
   mermaid_diagram |-> GetText(r.diagram_result, "diagram_code"),
   diagram_file |-> Get(r.diagram_result, "filename", Nil),
   html_preview |-> r.html_path]

Summary(r) ==
  [cloud_provider |-> r.plan_result.cloud_provider,
   region |-> r.plan_result.region,
   location_rationale |-> Get(r.plan_result, "location_rationale", None_),
   iac_tool |-> iac_tool,
   services_count |-> Len(Get(r.plan_result.service_plan, "services", <<>>)),
   estimated_savings |-> Get(r.cost_result, "estimated_monthly_savings", 0),
   code_file |-> Get(r.iac_result, "filename", Nil),
   code_path |-> Get(r.iac_result, "file_path", Nil),
   architecture |-> Get(r.plan_result, "architecture", Nil),
   mermaid_diagram |-> GetText(r.diagram_result, "diagram_code"),
   diagram_file |-> Get(r.diagram_result, "filename", Nil),
   html_preview |-> r.html_path]

WorkflowResult(r) ==
  [workflow_id |-> r.workflow_id, success |-> TRUE, workflow_type |-> "intelligent",
   input |-> [prompt |-> r.prompt, location |-> r.location, iac_tool |-> iac_tool],
   steps |-> [_1_intelligent_planning |-> r.plan_result,
              _2_cost_optimization |-> r.cost_result,
              _3_service_refinement |-> r.services_result,
              _4_iac_generation |-> r.iac_result,
              _5_diagram_generation |-> r.diagram_result],
   summary |-> Summary(r)]

PlanStage ==
  /\ pc = "plan"
  /\ \E a \in AnalysisReplies, s \in ServicePlanReplies, d \in DesignReplies :
       Counted(<<a, s, d>>) /\
       LET plan_result == plan_infrastructure(a, s, d)
           r == [Called("plan", plan_result) EXCEPT !.plan_result = plan_result]
       IN IF ~plan_result.success
          THEN Return(r, _create_error_response(run.workflow_id,
                        "Intelligent planning failed", Get(plan_result, "error", None_)), 0)
          ELSE IF IsExc(Upper(plan_result.cloud_provider))
          THEN Return(r, _create_error_response(run.workflow_id,
                        "Intelligent workflow execution failed",
                        Upper(plan_result.cloud_provider).exc), 0)
          ELSE run' = r /\ pc' = "cost" /\ UNCHANGED log
  /\ UNCHANGED <<call, clock, workflow_history, files, dbUp, dbWorkflows, conversation_history, code_versions, resp>>

\* sanity variant: the run goes from the cost analysis straight to the code
CostStage_skipping_refinement ==
  /\ pc = "cost"
  /\ \E reply \in CostReplies :
       Counted(<<reply>>) /\
       LET infrastructure_config ==
             [cloud_provider |-> cloud_provider, services |-> services,
              usage_patterns |-> "Production workload", current_cost |-> 0]
           raw == analyze_costs(infrastructure_config, reply)
       IN run' = [Called("cost", raw) EXCEPT !.cost_result = CostOrDefault(raw)]
  /\ pc' = "iac"
  /\ UNCHANGED <<call, clock, workflow_history, files, dbUp, dbWorkflows, conversation_history, code_versions, resp, log>>

CostStage ==
  /\ pc = "cost"
  /\ \E reply \in CostReplies :
       Counted(<<reply>>) /\
       LET infrastructure_config ==
             [cloud_provider |-> cloud_provider, services |-> services,
              usage_patterns |-> "Production workload", current_cost |-> 0]
           raw == analyze_costs(infrastructure_config, reply)
       IN run' = [Called("cost", raw) EXCEPT !.cost_result = CostOrDefault(raw)]
  /\ pc' = "refine"
  /\ UNCHANGED <<call, clock, workflow_history, files, dbUp, dbWorkflows, conversation_history, code_versions, resp, log>>

\* sanity variant: the exception of None.get(...) leaves the function
RefineStage_raising ==
  /\ pc = "refine"
  /\ IF run.plan_result.requirements_analysis = Nil
     THEN run' = run /\ pc' = "raised" /\ UNCHANGED <<log, faults>>
     ELSE \E reply \in SelectionReplies :
            Counted(<<reply>>) /\
            LET refined_requirements ==
                  [description |-> run.prompt,
                   workload_type |-> Get(run.plan_result.requirements_analysis, "app_type", "general"),
                   scale |-> Get(run.plan_result.requirements_analysis, "scale", "medium"),
                   cloud_provider |-> cloud_provider]
                raw == analyze_requirements(refined_requirements, reply)
            IN /\ run' = [Called("refine", raw) EXCEPT !.services_result = RefinementKept(raw)]
               /\ pc' = "iac"
               /\ UNCHANGED log
  /\ UNCHANGED <<call, clock, workflow_history, files, dbUp, dbWorkflows, conversation_history, code_versions, resp>>

RefineStage ==
  /\ pc = "refine"
  /\ IF run.plan_result.requirements_analysis = Nil
     THEN \* None.get(...) raises before the agent is called
          faults' = faults /\
          Return(run, _create_error_response(run.workflow_id,
                   "Intelligent workflow execution failed",
                   "NoneType object has no attribute get"), 0)
     ELSE \E reply \in SelectionReplies :
            Counted(<<reply>>) /\
            LET refined_requirements ==
                  [description |-> run.prompt,
                   workload_type |-> Get(run.plan_result.requirements_analysis, "app_type", "general"),
                   scale |-> Get(run.plan_result.requirements_analysis, "scale", "medium"),
                   cloud_provider |-> cloud_provider]
                raw == analyze_requirements(refined_requirements, reply)
            IN /\ run' = [Called("refine", raw) EXCEPT !.services_result = RefinementKept(raw)]
               /\ pc' = "iac"
               /\ UNCHANGED log
  /\ UNCHANGED <<call, clock, workflow_history, files, dbUp, dbWorkflows, conversation_history, code_versions, resp>>

\* the configuration that a run r hands to the code generator
IacConfig(r) ==
  [cloud_provider |-> r.plan_result.cloud_provider, iac_tool |-> iac_tool,
   services |-> Get(r.plan_result.service_plan, "services", <<>>),
   requirements |-> [description |-> r.prompt,
                     scale |-> Get(r.plan_result.requirements_analysis, "scale", "medium"),
                     region |-> r.plan_result.region],
   optimization_notes |-> Get(r.cost_result, "strategies", {})]

IacStage ==
  /\ pc = "iac"
  /\ \E reply \in CodeReplies :
       Counted(<<reply>>) /\
       LET iac_config == IacConfig(run)
           iac_result == generate_iac(iac_config, reply)
           r == [Called("iac", iac_result) EXCEPT !.iac_result = iac_result]
       IN IF ~iac_result.success
          THEN /\ Return(r, _create_error_response(run.workflow_id,
                            "IaC Generation failed", Get(iac_result, "error", None_)), 0)
               /\ UNCHANGED files
          ELSE /\ files' = (iac_result.file_path :> iac_result.code) @@ files
               /\ run' = r
               /\ pc' = "diagram"
               /\ log' = [log EXCEPT !.saved = Append(@, iac_result.filename)]
  /\ UNCHANGED <<call, clock, workflow_history, dbUp, dbWorkflows, conversation_history, code_versions, resp>>

\* sanity variant: a failed diagram ends the run with an error response
DiagramStage_aborting ==
  /\ pc = "diagram"
  /\ \E reply \in DiagramReplies, disk \in BOOLEAN :
       Counted(<<reply, Write(disk)>>) /\
       LET diagram_plan ==
             [cloud_provider |-> cloud_provider, services |-> services,
              architecture |-> Get(run.plan_result, "architecture", Nil),
              terraform_code |-> Get(run.iac_result, "code", <<>>)]
           diagram_result == generate_diagram(diagram_plan, reply)
           r == [Called("diagram", diagram_result) EXCEPT !.diagram_result = diagram_result]
           html == create_interactive_html(diagram_result.diagram_code, cloud_provider, disk)
       IN IF ~diagram_result.success
          THEN /\ files' = files
               /\ workflow_history' = workflow_history
               /\ Return(r, _create_error_response(run.workflow_id,
                            "Diagram generation failed", diagram_result.error), 0)
          ELSE IF IsExc(html)
          THEN /\ files' = (diagram_result.file_path :> diagram_result.diagram_code) @@ files
               /\ workflow_history' = workflow_history
               /\ Return(r, _create_error_response(run.workflow_id,
                            "Intelligent workflow execution failed", html.exc), 0)
          ELSE LET r2 == [r EXCEPT !.html_path = html]
               IN /\ files' = (html :> Html(diagram_result.diagram_code)) @@
                              (diagram_result.file_path :> diagram_result.diagram_code) @@ files
                  /\ workflow_history' = Append(workflow_history, WorkflowResult(r2))
                  /\ Return(r2, WorkflowResult(r2), Len(workflow_history) + 1)
  /\ UNCHANGED <<call, clock, dbUp, dbWorkflows, conversation_history, code_versions, resp>>

DiagramStage ==
  /\ pc = "diagram"
  /\ \E reply \in DiagramReplies, disk \in BOOLEAN :
       Counted(<<reply, Write(disk)>>) /\
       LET diagram_plan ==
             [cloud_provider |-> cloud_provider, services |-> services,
              architecture |-> Get(run.plan_result, "architecture", Nil),
              terraform_code |-> Get(run.iac_result, "code", <<>>)]
           diagram_result == generate_diagram(diagram_plan, reply)
           r == [Called("diagram", diagram_result) EXCEPT !.diagram_result = diagram_result]
           html == create_interactive_html(diagram_result.diagram_code, cloud_provider, disk)
       IN IF ~diagram_result.success
          THEN \* the failure is printed and the run goes on without a viewer
               /\ files' = files
               /\ workflow_history' = Append(workflow_history, WorkflowResult(r))
               /\ Return(r, WorkflowResult(r), Len(workflow_history) + 1)
          ELSE IF IsExc(html)
          THEN /\ files' = (diagram_result.file_path :> diagram_result.diagram_code) @@ files
               /\ workflow_history' = workflow_history
               /\ Return(r, _create_error_response(run.workflow_id,
                            "Intelligent workflow execution failed", html.exc), 0)
          ELSE LET r2 == [r EXCEPT !.html_path = html]
               IN /\ files' = (html :> Html(diagram_result.diagram_code)) @@
                              (diagram_result.file_path :> diagram_result.diagram_code) @@ files
                  /\ workflow_history' = Append(workflow_history, WorkflowResult(r2))
                  /\ Return(r2, WorkflowResult(r2), Len(workflow_history) + 1)
  /\ UNCHANGED <<call, clock, dbUp, dbWorkflows, conversation_history, code_versions, resp>>

(* ------------------------------ api/main.py ----------------------------- *)
NoResponse == [op |-> "none", status |-> 0]

\* the request bodies tried: neither prompt nor repository, a prompt, a repository
Requests ==
  {[prompt |-> <<>>, location |-> l, repo_url |-> None_] : l \in Locations} \cup
  {[prompt |-> p, location |-> l, repo_url |-> None_] : p \in Prompts, l \in Locations} \cup
  {[prompt |-> <<>>, location |-> l, repo_url |-> u] : l \in Locations, u \in RepoUrls}

\* the generated prompt is the Oracle's answer stripped: it can be empty
RepoAnalyses ==
  {[success |-> FALSE, error |-> "clone failed"],
   [success |-> TRUE, generated_prompt |-> <<"Deploy a Flask app">>,
    analysis |-> [tech_stack |-> <<"python">>]],
   [success |-> TRUE, generated_prompt |-> <<>>,
    analysis |-> [tech_stack |-> <<"python">>]]}

\* POST /api/v1/workflows/intelligent up to the first stage of the run; the
\* empty prompt stands for a prompt that is None or ""
create_intelligent_workflow ==
  /\ pc = "idle"
  /\ Len(log.ids) < MaxRuns
  /\ \E request \in Requests, repo_analysis \in RepoAnalyses :
      LET prompt == request.prompt
          location == request.location
          repo_url == request.repo_url
      IN
       IF prompt = <<>> /\ repo_url = None_
       THEN /\ resp' = [op |-> "create", status |-> 400,
                        detail |-> "Either prompt or repo_url must be provided"]
            /\ UNCHANGED <<pc, run>>
       ELSE IF repo_url # None_ /\ ~repo_analysis.success
       THEN /\ resp' = [op |-> "create", status |-> 400,
                        detail |-> "Repository analysis failed"]
            /\ UNCHANGED <<pc, run>>
       ELSE LET final_prompt ==
                  IF repo_url = None_ THEN prompt
                  ELSE IF prompt # <<>>
                  THEN repo_analysis.generated_prompt \o <<"Additional Requirements:">> \o prompt
                  ELSE repo_analysis.generated_prompt
            IN /\ run' = [NoRun EXCEPT !.workflow_id = WorkflowId(clock),
                                       !.prompt = final_prompt,
                                       !.location = location,
                                       !.repo_url = repo_url,
                                       !.repo_analysis =
                                          IF repo_url = None_ THEN Nil ELSE repo_analysis]
               /\ pc' = "plan"
               /\ resp' = NoResponse
  /\ UNCHANGED <<call, faults, clock, workflow_history, files, dbUp, dbWorkflows, conversation_history, code_versions, log>>

\* lines 137-146: the handler adds the repository analysis to the dict the
\* orchestrator returned, which is the dict the history holds, and answers
RepositoryAnalysis(r) ==
  [repo_url |-> r.repo_url, tech_stack |-> Get(r.repo_analysis.analysis, "tech_stack", <<>>)]

Respond ==
  /\ pc = "respond"
  /\ LET result == IF run.repo_url # None_
                   THEN [repository_analysis |-> RepositoryAnalysis(run)] @@ run.result
                   ELSE run.result
     IN /\ workflow_history' = IF run.alias > 0
                               THEN [workflow_history EXCEPT ![run.alias] = result]
                               ELSE workflow_history
        /\ resp' = [op |-> "create", status |-> 200, workflow_id |-> result.workflow_id,
                    success |-> result.success]
  /\ pc' = "idle"
  /\ run' = NoRun
  /\ UNCHANGED <<call, faults, clock, files, dbUp, dbWorkflows, conversation_history, code_versions, log>>

(* ------------------------- database.py, the tables ---------------------- *)
\* No code of the repository inserts into table workflows: its rows are
\* those an earlier deployment or another client of the database stored.
StoredFile == [provider |-> "aws", tool |-> "terraform", timestamp |-> 0, extension |-> "tf"]

StoredRow ==
  [workflow_id |-> WorkflowId(0), success |-> TRUE, workflow_type |-> "intelligent",
   timestamp |-> 0, prompt |-> <<"Build a blog">>, location |-> None_, iac_tool |-> "terraform",
   cloud_provider |-> "aws", region |-> "us-east-1",
   code_file |-> StoredFile, code_path |-> CodePath(StoredFile)]

\* a row stored before StoredRow was
EarlierFile == [provider |-> "aws", tool |-> "terraform", timestamp |-> -1, extension |-> "tf"]

EarlierRow ==
  [StoredRow EXCEPT !.workflow_id = WorkflowId(-1), !.timestamp = -1,
                    !.prompt = <<"Build a wiki">>,
                    !.code_file = EarlierFile, !.code_path = CodePath(EarlierFile)]

\* the ids asked for: the stored row's and that of a run started at second 1
Ids == {WorkflowId(0), WorkflowId(1)}

Rows(table, workflow_id) == {w \in table : w.workflow_id = workflow_id}

\* lines 214-246: the dict built from a row
RowDict(w) ==
  [workflow_id |-> w.workflow_id, success |-> w.success, workflow_type |-> w.workflow_type,
   input |-> [prompt |-> w.prompt, location |-> w.location, iac_tool |-> w.iac_tool],
   summary |-> [cloud_provider |-> w.cloud_provider, region |-> w.region,
                iac_tool |-> w.iac_tool, code_file |-> w.code_file, code_path |-> w.code_path]]

\* next((w for w in history if w["workflow_id"] == workflow_id), None)
FirstIn(history, workflow_id) ==
  LET hits == {i \in 1..Len(history) : history[i].workflow_id = workflow_id}
  IN IF hits = {} THEN 0 ELSE CHOOSE i \in hits : \A j \in hits : i <= j

\* GET /api/v1/workflows/{workflow_id}
get_workflow(workflow_id) ==
  IF dbUp
  THEN IF Rows(dbWorkflows, workflow_id) = {}
       THEN [op |-> "get_workflow", workflow_id |-> workflow_id, status |-> 404,
             from |-> "database"]
       ELSE [op |-> "get_workflow", workflow_id |-> workflow_id, status |-> 200,
             from |-> "database",
             body |-> RowDict(CHOOSE w \in Rows(dbWorkflows, workflow_id) : TRUE)]
  ELSE IF FirstIn(workflow_history, workflow_id) = 0
       THEN [op |-> "get_workflow", workflow_id |-> workflow_id, status |-> 404,
             from |-> "memory"]
       ELSE [op |-> "get_workflow", workflow_id |-> workflow_id, status |-> 200,
             from |-> "memory",
             body |-> workflow_history[FirstIn(workflow_history, workflow_id)]]

GetWorkflow ==
  /\ pc = "idle"
  /\ \E workflow_id \in Ids : resp' = get_workflow(workflow_id)
  /\ UNCHANGED <<call, faults, clock, pc, run, workflow_history, files, dbUp, dbWorkflows, conversation_history,
                 code_versions, log>>

\* order_by(WorkflowModel.timestamp.desc()).all()
RECURSIVE NewestFirst(_)
NewestFirst(table) ==
  IF table = {} THEN <<>>
  ELSE LET w == CHOOSE x \in table : \A y \in table : y.timestamp <= x.timestamp
       IN <<w>> \o NewestFirst(table \ {w})

\* GET /api/v1/workflows: the ids listed, in the order of the answer
get_workflows ==
  IF dbUp
  THEN [op |-> "get_workflows", status |-> 200, from |-> "database",
        ids |-> [i \in 1..Cardinality(dbWorkflows) |-> NewestFirst(dbWorkflows)[i].workflow_id]]
  ELSE [op |-> "get_workflows", status |-> 200, from |-> "memory",
        ids |-> [i \in 1..Len(workflow_history) |-> workflow_history[i].workflow_id]]

GetWorkflows ==
  /\ pc = "idle"
  /\ resp' = get_workflows
  /\ UNCHANGED <<call, faults, clock, pc, run, workflow_history, files, dbUp, dbWorkflows, conversation_history,
                 code_versions, log>>

(* ----------------------- the code-edit endpoints ------------------------ *)
\* api/main.py uses datetime.utcnow() and never imports datetime: evaluating
\* the name raises NameError
\* sanity variant: the module imports datetime
datetime_imported_by_the_module == TRUE

datetime_imported == FALSE

VersionsOf(workflow_id) ==
  LET idx == {i \in 1..Len(code_versions) : code_versions[i].workflow_id = workflow_id}
  IN {code_versions[i].version : i \in idx}

\* order_by(version.desc()).first(), then latest.version + 1, or 1
NewVersion(workflow_id) ==
  IF VersionsOf(workflow_id) = {} THEN 1
  ELSE (CHOOSE v \in VersionsOf(workflow_id) : \A u \in VersionsOf(workflow_id) : u <= v) + 1

(* ---------------------- the code-retrieval endpoint --------------------- *)
\* VishuAgent.read_terraform_file: the content, or None when open() fails
read_terraform_file(file_path) ==
  IF file_path \in DOMAIN files THEN [text |-> files[file_path]] ELSE Nil

\* Python truth of an optional text: None and the empty text are false
Truthy(terraform_code) == terraform_code # Nil /\ terraform_code.text # <<>>

CodeResponse(workflow_id, status, detail) ==
  [op |-> "get_terraform_code", workflow_id |-> workflow_id, status |-> status,
   detail |-> detail]

\* lines 774-808: the in-memory fallback
CodeFromMemory(workflow_id) ==
  LET i == FirstIn(workflow_history, workflow_id)
      code_path == Get(Get(workflow_history[i], "summary", <<>>), "code_path", Nil)
      terraform_code == read_terraform_file(code_path)
  IN IF i = 0 THEN CodeResponse(workflow_id, 404, "Workflow not found")
     ELSE IF code_path = Nil
     THEN CodeResponse(workflow_id, 404, "Code path not found in workflow")
     ELSE IF ~Truthy(terraform_code)
     THEN CodeResponse(workflow_id, 404, "Terraform file not found")
     ELSE [terraform_code |-> terraform_code.text, file_path |-> code_path,
           current_version |-> 1] @@ CodeResponse(workflow_id, 200, "memory")

\* GET /api/v1/workflows/{workflow_id}/code
get_terraform_code(workflow_id) ==
  IF dbUp /\ Rows(dbWorkflows, workflow_id) # {}
  THEN LET workflow == CHOOSE w \in Rows(dbWorkflows, workflow_id) : TRUE
           terraform_code == read_terraform_file(workflow.code_path)
       IN IF Truthy(terraform_code)
          THEN [terraform_code |-> terraform_code.text, file_path |-> workflow.code_path,
                current_version |-> IF VersionsOf(workflow_id) = {} THEN 1
                                    ELSE NewVersion(workflow_id) - 1] @@
               CodeResponse(workflow_id, 200, "database")
          ELSE CodeFromMemory(workflow_id)
  ELSE CodeFromMemory(workflow_id)

GetTerraformCode ==
  /\ pc = "idle"
  /\ \E workflow_id \in Ids : resp' = get_terraform_code(workflow_id)
  /\ UNCHANGED <<call, faults, clock, pc, run, workflow_history, files, dbUp, dbWorkflows, conversation_history,
                 code_versions, log>>

\* valid: the request names a stored workflow and the database, the file
\* system and the commit all work while it is handled
EditResponse(op, workflow_id, status, detail, valid) ==
  [op |-> op, workflow_id |-> workflow_id, status |-> status, detail |-> detail,
   valid |-> valid]

\* the body shared by POST .../code (modified_by user) and
\* POST .../code/apply-suggestion (modified_by vishu); disk: the file can be
\* written; commit: db.commit() succeeds
EditCode(op, modified_by, workflow_id, terraform_code, disk, commit) ==
  IF ~dbUp
  THEN /\ resp' = EditResponse(op, workflow_id, 500, "database unreachable", FALSE)
       /\ UNCHANGED <<code_versions, files>>
  ELSE IF Rows(dbWorkflows, workflow_id) = {}
  THEN /\ resp' = EditResponse(op, workflow_id, 404, "Workflow not found", FALSE)
       /\ UNCHANGED <<code_versions, files>>
  ELSE LET workflow == CHOOSE w \in Rows(dbWorkflows, workflow_id) : TRUE
           new_version == NewVersion(workflow_id)
           code_version == [workflow_id |-> workflow_id, version |-> new_version,
                            terraform_code |-> terraform_code,
                            file_path |-> workflow.code_path, modified_by |-> modified_by]
       IN IF ~datetime_imported
             THEN /\ resp' = EditResponse(op, workflow_id, 500, "name datetime is not defined",
                                          disk /\ commit)
                  /\ UNCHANGED <<code_versions, files>>
             ELSE IF ~disk
             THEN /\ resp' = EditResponse(op, workflow_id, 500, "Failed to write file", FALSE)
                  /\ UNCHANGED <<code_versions, files>>
             ELSE IF ~commit
             THEN /\ files' = (workflow.code_path :> terraform_code) @@ files
                  /\ resp' = EditResponse(op, workflow_id, 500, "commit failed", FALSE)
                  /\ UNCHANGED code_versions
             ELSE /\ files' = (workflow.code_path :> terraform_code) @@ files
                  /\ code_versions' = Append(code_versions, code_version)
                  /\ resp' = [version |-> new_version] @@
                             EditResponse(op, workflow_id, 200, "updated", TRUE)

EditTexts == {<<"resource E">>}

\* the file is written and the commit succeeds; the write fails; the commit fails
EditIO == {[disk |-> TRUE, commit |-> TRUE], [disk |-> FALSE, commit |-> TRUE],
           [disk |-> TRUE, commit |-> FALSE]}

update_terraform_code ==
  /\ pc = "idle"
  /\ \E workflow_id \in Ids, terraform_code \in EditTexts, io \in EditIO :
       EditCode("update_terraform_code", "user", workflow_id, terraform_code, io.disk, io.commit)
  /\ UNCHANGED <<call, faults, clock, pc, run, workflow_history, dbUp, dbWorkflows, conversation_history, log>>

apply_vishu_suggestion ==
  /\ pc = "idle"
  /\ \E workflow_id \in Ids, terraform_code \in EditTexts, io \in EditIO :
       EditCode("apply_vishu_suggestion", "vishu", workflow_id, terraform_code, io.disk, io.commit)
  /\ UNCHANGED <<call, faults, clock, pc, run, workflow_history, dbUp, dbWorkflows, conversation_history, log>>

(* --------------------------- the Advisor (Vishu) ------------------------ *)
Window == 10       \* conversation_history[-10:]
MaxHistory == 12   \* the longest conversation explored

Messages == {<<"why this region">>, <<"is it secure">>}

NoContent == [kind |-> "none"]   \* the answer's message.content is None
AdvisorReplies == {Raise(e) : e \in Errs} \cup {Text(<<"", "use spot instances">>), NoContent}

\* s[-n:]
LastN(s, n) == IF Len(s) <= n THEN s ELSE SubSeq(s, Len(s) - n + 1, Len(s))

SystemPrompt == [role |-> "system", content |-> <<"You are Vishu">>]

\* the texts of the model are shorter than the 2000 characters kept
ContextMessage(terraform_code, workflow_context) ==
  [role |-> "system",
   content |-> <<"Infrastructure Context:">> \o terraform_code.text \o
               (IF workflow_context = Nil THEN <<>>
                ELSE <<workflow_context.cloud_provider, workflow_context.region>> \o
                     workflow_context.prompt)]

\* the messages that chat sends to the Oracle
ChatMessages(message, terraform_code, workflow_context) ==
  <<SystemPrompt>> \o
  (IF Truthy(terraform_code) THEN <<ContextMessage(terraform_code, workflow_context)>>
   ELSE <<>>) \o
  LastN(conversation_history, Window) \o
  <<[role |-> "user", content |-> message]>>

\* VishuAgent.chat: what it returns
chat(message, workflow_id, reply) ==
  CASE reply.kind = "raise" ->
         [success |-> FALSE, error |-> reply.error]
    [] reply.kind = "none" ->
         [success |-> FALSE, error |-> "NoneType object has no attribute strip"]
    [] OTHER ->
         [success |-> TRUE, message |-> Strip(reply.text), workflow_id |-> workflow_id]

\* sanity variant: the user's message is kept before the Oracle is asked
HistoryAfter_keeping_the_question(message, response) ==
  IF response.success
  THEN conversation_history \o <<[role |-> "user", content |-> message],
                                 [role |-> "assistant", content |-> response.message]>>
  ELSE Append(conversation_history, [role |-> "user", content |-> message])

\* VishuAgent.chat: the conversation history it leaves
HistoryAfter(message, response) ==
  IF response.success
  THEN conversation_history \o <<[role |-> "user", content |-> message],
                                 [role |-> "assistant", content |-> response.message]>>
  ELSE conversation_history

WorkflowContext(workflow) ==
  [cloud_provider |-> workflow.cloud_provider, region |-> workflow.region,
   services_count |-> 0, prompt |-> workflow.prompt]

AdvisorResponse(op, workflow_id, status, body) ==
  [op |-> op, workflow_id |-> workflow_id, status |-> status, body |-> body]

\* POST /api/v1/vishu/chat; workflow_id Nil: the request names no workflow
vishu_chat ==
  /\ pc = "idle"
  /\ \E message \in Messages, workflow_id \in Ids \cup {Nil}, reply \in AdvisorReplies :
       IF workflow_id # Nil /\ ~dbUp
       THEN /\ resp' = AdvisorResponse("vishu_chat", workflow_id, 500,
                                       [detail |-> "database unreachable"])
            /\ UNCHANGED <<conversation_history, call>>
       ELSE LET rows == IF workflow_id = Nil THEN {} ELSE Rows(dbWorkflows, workflow_id)
                workflow == CHOOSE w \in rows : TRUE
                terraform_code == IF rows = {} THEN Nil
                                  ELSE read_terraform_file(workflow.code_path)
                workflow_context == IF rows = {} THEN Nil ELSE WorkflowContext(workflow)
                response == chat(message, workflow_id, reply)
            IN /\ Len(HistoryAfter(message, response)) <= MaxHistory
               /\ call' = [fn |-> "chat", message |-> message, workflow_id |-> workflow_id,
                           messages |-> ChatMessages(message, terraform_code,
                                                     workflow_context)]
               /\ conversation_history' = HistoryAfter(message, response)
               /\ resp' = AdvisorResponse("vishu_chat", workflow_id, 200, response)
  /\ UNCHANGED <<faults, clock, pc, run, workflow_history, files, dbUp, dbWorkflows,
                 code_versions, log>>

\* VishuAgent.analyze_terraform_code: what it returns
analyze_terraform_code(terraform_code, workflow_context, reply) ==
  CASE reply.kind = "raise" ->
         [success |-> FALSE, error |-> reply.error]
    [] reply.kind = "none" ->
         [success |-> FALSE, error |-> "NoneType object has no attribute strip"]
    [] OTHER ->
         [success |-> TRUE, analysis |-> Strip(reply.text), context |-> workflow_context]

\* sanity variant: the analysis is stored in the row of the workflow
vishu_analyze_workflow_storing_the_analysis ==
  /\ pc = "idle"
  /\ dbUp
  /\ \E workflow_id \in Ids, reply \in AdvisorReplies :
       /\ Rows(dbWorkflows, workflow_id) # {}
       /\ LET workflow == CHOOSE w \in Rows(dbWorkflows, workflow_id) : TRUE
              analysis == analyze_terraform_code(read_terraform_file(workflow.code_path).text,
                                                 WorkflowContext(workflow), reply)
          IN /\ resp' = AdvisorResponse("vishu_analyze_workflow", workflow_id, 200, analysis)
             /\ dbWorkflows' = (dbWorkflows \ {workflow}) \cup
                                 {[workflow EXCEPT !.success = analysis.success]}
  /\ UNCHANGED <<call, faults, clock, pc, run, workflow_history, files, dbUp,
                 conversation_history, code_versions, log>>

\* POST /api/v1/vishu/analyze
vishu_analyze_workflow ==
  /\ pc = "idle"
  /\ \E workflow_id \in Ids, reply \in AdvisorReplies :
       resp' =
         IF ~dbUp
         THEN AdvisorResponse("vishu_analyze_workflow", workflow_id, 500,
                              [detail |-> "database unreachable"])
         ELSE IF Rows(dbWorkflows, workflow_id) = {}
         THEN AdvisorResponse("vishu_analyze_workflow", workflow_id, 404,
                              [detail |-> "Workflow not found"])
         ELSE LET workflow == CHOOSE w \in Rows(dbWorkflows, workflow_id) : TRUE
                  terraform_code == read_terraform_file(workflow.code_path)
              IN IF ~Truthy(terraform_code)
                 THEN AdvisorResponse("vishu_analyze_workflow", workflow_id, 404,
                                      [detail |-> "Terraform file not found"])
                 ELSE AdvisorResponse("vishu_analyze_workflow", workflow_id, 200,
                        analyze_terraform_code(terraform_code.text,
                                               WorkflowContext(workflow), reply))
  /\ UNCHANGED <<call, faults, clock, pc, run, workflow_history, files, dbUp, dbWorkflows,
                 conversation_history, code_versions, log>>

\* VishuAgent.clear_conversation_history, called on the agent
clear_conversation_history ==
  /\ pc = "idle"
  /\ conversation_history' = <<>>
  /\ call' = [fn |-> "clear_conversation_history"]
  /\ UNCHANGED <<faults, clock, pc, run, workflow_history, files, dbUp, dbWorkflows,
                 code_versions, resp, log>>

(* ----------------------------- environment ------------------------------ *)
NoCall == [fn |-> "none"]

Tick ==
  /\ clock < MaxClock
  /\ clock' = clock + 1
  /\ UNCHANGED <<call, faults, pc, run, workflow_history, files, dbUp, dbWorkflows, conversation_history,
                 code_versions, resp, log>>

\* the database becomes unreachable, or reachable again, between requests
DbFlip ==
  /\ pc = "idle"
  /\ dbUp' = ~dbUp
  /\ UNCHANGED <<call, faults, clock, pc, run, workflow_history, files, dbWorkflows, conversation_history, code_versions,
                 resp, log>>

(* ------------------------ direct calls of the agents -------------------- *)
\* every shape of answer the planner can be given
PlannerAnalysisReplies ==
  AnalysisReplies \cup {NotJson, Json(JsonList), Json(NoProvider), Json(NoRegion)}
PlannerServicePlanReplies == ServicePlanReplies \cup {NotJson}
PlannerDesignReplies == DesignReplies \cup {NotJson}

\* planner.plan_infrastructure(prompt, location) with the three answers given
PlannerCall ==
  /\ \E a \in PlannerAnalysisReplies, s \in PlannerServicePlanReplies,
        d \in PlannerDesignReplies :
       call' = [fn |-> "plan_infrastructure", analysis_reply |-> a, service_reply |-> s,
                design_reply |-> d, result |-> plan_infrastructure(a, s, d),
                requests |-> OracleRequests(a, s, d)]
  /\ UNCHANGED <<faults, clock, pc, run, workflow_history, files, dbUp, dbWorkflows, conversation_history,
                 code_versions, resp, log>>

Dialects == {"terraform", "cloudformation", "pulumi"}
IacTools == Dialects \cup {"bicep"}

\* BrahmaOrchestrator.generate_iac_only(config): the caller chooses the tool
generate_iac_only ==
  /\ \E tool \in IacTools, reply \in CodeReplies :
       LET config == [cloud_provider |-> "gcp", iac_tool |-> tool, services |-> <<Svc>>]
           result == generate_iac(config, reply)
       IN /\ call' = [fn |-> "generate_iac", config |-> config, reply |-> reply,
                      result |-> result]
          /\ files' = IF result.success
                      THEN (result.file_path :> result.code) @@ files ELSE files
  /\ UNCHANGED <<faults, clock, pc, run, workflow_history, dbUp, dbWorkflows, conversation_history,
                 code_versions, resp, log>>

\* every text of at most MaxLines lines: blank lines, fences and code
CleanTexts == UNION {[1..n -> {"", Fence, FenceOpen, "resource A"}] : n \in 0..MaxLines}

\* generate_iac, lines 63-66: the Oracle's text is trimmed, then cleaned
CleanCode ==
  /\ \E text \in CleanTexts :
       call' = [fn |-> "_clean_code", code |-> Strip(text),
                result |-> _clean_code(Strip(text))]
  /\ UNCHANGED <<faults, clock, pc, run, workflow_history, files, dbUp, dbWorkflows,
                 conversation_history, code_versions, resp, log>>

(* ------------- agents/iac_generation.py, the template generator --------- *)
TemplateProviders == {"aws", "AWS", "azure", "gcp", "oracle"}

_generate_terraform(provider) ==
  CASE provider = "aws" -> [value |-> <<"provider aws">>]
    [] provider = "azure" -> [value |-> <<"provider azurerm">>]
    [] provider = "gcp" -> [value |-> <<"provider google">>]
    [] OTHER -> [exc |-> "Unsupported cloud provider for Terraform"]

\* the template is built from the services alone: the provider is not a parameter
_generate_cloudformation(service_list) ==
  [value |-> <<"AWSTemplateFormatVersion">> \o
             [i \in 1..Len(service_list) |-> Get(service_list[i], "type", "")]]

_generate_pulumi(provider) ==
  IF provider = "aws" THEN [value |-> <<"import pulumi_aws">>]
  ELSE [exc |-> "Pulumi support not implemented yet"]

_apply_best_practices(code) == <<"# Security Best Practices Applied:">> \o code

_save_generated_code(provider, iac_type) ==
  [provider |-> provider, tool |-> iac_type, timestamp |-> clock,
   extension |-> Extension(iac_type)]

TemplatePath(filename) == [dir |-> "../data/generated_code", file |-> filename]

generate_iac_code(requirements, disk) ==
  LET provider == Lower(requirements.cloud_provider)
      iac_type == Lower(requirements.iac_type)
      generated == CASE iac_type = "terraform" -> _generate_terraform(provider)
                     [] iac_type = "cloudformation" ->
                          _generate_cloudformation(requirements.services)
                     [] iac_type = "pulumi" -> _generate_pulumi(provider)
                     [] OTHER -> [exc |-> "Unsupported IaC type"]
  IN IF IsExc(generated) THEN [success |-> FALSE, error |-> generated.exc]
     ELSE IF ~disk THEN [success |-> FALSE, error |-> "No space left on device"]
     ELSE [success |-> TRUE, code |-> _apply_best_practices(generated.value),
           filename |-> _save_generated_code(provider, iac_type),
           cloud_provider |-> provider, iac_type |-> iac_type]

\* a caller (test_brahma.py) asks the template generator for one combination
GenerateIacCode ==
  /\ \E provider \in TemplateProviders, iac_type \in IacTools, disk \in BOOLEAN :
       LET requirements == [cloud_provider |-> provider, iac_type |-> iac_type,
                            services |-> <<[type |-> "compute"]>>]
           result == generate_iac_code(requirements, disk)
       IN /\ call' = [fn |-> "generate_iac_code", requirements |-> requirements,
                      disk |-> disk, result |-> result]
          /\ files' = IF result.success
                      THEN (TemplatePath(result.filename) :> result.code) @@ files
                      ELSE files
  /\ UNCHANGED <<faults, clock, pc, run, workflow_history, dbUp, dbWorkflows, conversation_history,
                 code_versions, resp, log>>

(* ---------------------------- specification ----------------------------- *)
\* the code files that the runs of the stored workflows wrote
GeneratedFiles ==
  (StoredRow.code_path :> <<"resource S">>) @@ (EarlierRow.code_path :> <<"resource W">>)

Init ==
  /\ clock = 1
  /\ pc = "idle"
  /\ run = NoRun
  /\ workflow_history = <<>>
  /\ dbUp \in BOOLEAN
  /\ dbWorkflows = {StoredRow, EarlierRow}
  /\ files = GeneratedFiles
  /\ code_versions = <<>>
  /\ resp = NoResponse
  /\ log = [ids |-> <<>>, saved |-> <<>>]
  /\ call = NoCall
  /\ faults = 0
  /\ conversation_history = <<>>

Next ==
  \/ create_intelligent_workflow
  \/ PlanStage
  \/ CostStage
  \/ RefineStage
  \/ IacStage
  \/ DiagramStage
  \/ Respond
  \/ GetWorkflow
  \/ GetWorkflows
  \/ GetTerraformCode
  \/ update_terraform_code
  \/ apply_vishu_suggestion
  \/ Tick
  \/ DbFlip

Spec == Init /\ [][Next]_vars

\* the workflow endpoint alone: the handler runs its stages to the end (every
\* stage returns or raises, the Oracle's client answering or timing out)
RunNext ==
  \/ create_intelligent_workflow
  \/ PlanStage
  \/ CostStage
  \/ RefineStage
  \/ IacStage
  \/ DiagramStage
  \/ Respond
  \/ Tick

RunSpec ==
  /\ Init
  /\ [][RunNext]_vars
  /\ WF_vars(PlanStage)
  /\ WF_vars(CostStage)
  /\ WF_vars(RefineStage)
  /\ WF_vars(IacStage)
  /\ WF_vars(DiagramStage)
  /\ WF_vars(Respond)

\* the agents called directly, outside a workflow
AgentNext ==
  \/ PlannerCall
  \/ generate_iac_only

AgentSpec == Init /\ [][AgentNext]_vars

\* the Advisor's operations and the edits, on the stored workflows
AdvisorNext ==
  \/ vishu_chat
  \/ vishu_analyze_workflow
  \/ clear_conversation_history
  \/ update_terraform_code
  \/ apply_vishu_suggestion
  \/ DbFlip

AdvisorSpec == Init /\ [][AdvisorNext]_vars

\* the fence stripping applied on its own
CleanSpec == Init /\ [][CleanCode]_vars

\* the template generator called on its own
TemplateSpec == Init /\ [][GenerateIacCode]_vars

(* ------------------------------ properties ------------------------------ *)
Stages == <<"plan", "cost", "refine", "iac", "diagram">>

DefaultCost == [success |-> TRUE, strategies |-> {}]

EditOps == {"update_terraform_code", "apply_vishu_suggestion"}

\* C1: every call of execute_intelligent_workflow returns a workflow id that
\* is non-empty and differs from the id every other call returned, calls
\* within one clock second included.
C1_IdsAreUnique ==
  \A i, j \in 1..Len(log.ids) :
    /\ log.ids[i] # Nil
    /\ i # j => log.ids[i] # log.ids[j]

\* C2: when the planner or the code generator reports failure the run ends at
\* once with success = false, the result names the failed stage and carries
\* the stage's own error, and no later stage has been called.
C2_HardStageFailureAborts ==
  /\ "plan" \in run.failed =>
        /\ pc = "respond"
        /\ run.calls = <<"plan">>
        /\ run.result = [workflow_id |-> run.workflow_id, success |-> FALSE,
                          error |-> "Intelligent planning failed",
                          error_details |-> run.plan_result.error]
  /\ "iac" \in run.failed =>
        /\ pc = "respond"
        /\ run.calls = <<"plan", "cost", "refine", "iac">>
        /\ run.result = [workflow_id |-> run.workflow_id, success |-> FALSE,
                          error |-> "IaC Generation failed",
                          error_details |-> run.iac_result.error]

\* a run whose code generator failed is about to answer
C2_Witness ==
  /\ pc = "respond"
  /\ "iac" \in run.failed
  /\ run.iac_result.error \in Errs

\* C3: when the cost analysis reports failure the run goes on to refinement,
\* code and diagram, the cost entry kept for the record is the default
\* (success = true, no strategies) and not the failure payload, and a run
\* that then fails fails in a later stage.
C3_CostFailureIsSoft ==
  "cost" \in run.failed =>
     /\ run.cost_result = DefaultCost
     /\ pc \in {"refine", "iac", "diagram", "respond"}
     /\ pc = "respond" =>
           IF run.result.success
           THEN /\ run.calls = Stages
                /\ run.result.steps._2_cost_optimization = DefaultCost
           ELSE /\ Len(run.calls) >= 2
                /\ run.result.error \in {"IaC Generation failed",
                                          "Intelligent workflow execution failed"}

\* a run whose cost analysis failed ends with success = true, and its record
\* is in the history
C3_Witness ==
  /\ pc = "respond"
  /\ "cost" \in run.failed
  /\ run.result.success
  /\ run.alias = Len(workflow_history)
  /\ workflow_history[run.alias].steps._2_cost_optimization = DefaultCost

\* C4: when the service refinement reports failure, the refinement entry
\* kept for the record is an empty default and not the failure payload.
C4_RefinementFailureIsReplaced ==
  "refine" \in run.failed =>
     /\ run.services_result.success
     /\ "error" \notin DOMAIN run.services_result

\* C5: the stages of one run are called in the order plan, cost, refine,
\* iac, diagram, each at most once and each after its predecessor returned.
C5_StagesInOrder ==
  /\ \E n \in 0..Len(Stages) : run.calls = SubSeq(Stages, 1, n)
  /\ pc = "cost" => run.calls = SubSeq(Stages, 1, 1)
  /\ pc = "refine" => run.calls = SubSeq(Stages, 1, 2)
  /\ pc = "iac" => run.calls = SubSeq(Stages, 1, 3)
  /\ pc = "diagram" => run.calls = SubSeq(Stages, 1, 4)

\* a run has called all five stages, one of them having failed
C5_Witness ==
  /\ pc = "respond"
  /\ run.calls = Stages
  /\ run.failed # {}

\* C6: every run that concludes, with success or with failure, appends one
\* record to the history: after n concluded runs the history holds n records.
C6_EveryRunIsRecorded ==
  pc = "idle" => Len(workflow_history) = Len(log.ids)

\* C7: once a run has appended its record, GET /workflows/{id} with the id of
\* the record answers 200 and GET /workflows lists the id, whether or not
\* the database can be reached.
C7_AppendedRecordIsRead ==
  LET recorded == {workflow_history[i].workflow_id : i \in 1..Len(workflow_history)}
  IN /\ (resp.op = "get_workflow" /\ resp.workflow_id \in recorded) => resp.status = 200
     /\ resp.op = "get_workflows" => recorded \subseteq Range(resp.ids)

\* C8: a record that is in the history never changes: no step adds, removes
\* or modifies a key of it.
C8_RecordsNeverChange ==
  [][\A i \in 1..Len(workflow_history) :
        /\ i <= Len(workflow_history')
        /\ workflow_history'[i] = workflow_history[i]]_vars

C10_FileNamesAreDistinct ==
  \A i, j \in 1..Len(log.saved) : i # j => log.saved[i] # log.saved[j]

\* C11: a request with an empty prompt and no repository URL is answered 400
\* with no run started, and no run is ever started (the planner is never
\* called) with an empty prompt.
C11_NoRunWithEmptyPrompt ==
  /\ (resp.op = "create" /\ resp.status = 400) => (pc = "idle" /\ run = NoRun)
  /\ pc # "idle" => run.prompt # <<>>

\* C12: an answer of the Oracle that has not the expected shape (not JSON,
\* JSON that is not an object, an object without provider or region) is
\* recovered with a fallback: the planner given three answers, none of them
\* an error of the call, returns no failure result.
C12_OddAnswersAreRecovered ==
  (/\ call.fn = "plan_infrastructure"
   /\ ~RaisedIn(call.analysis_reply)
   /\ ~RaisedIn(call.service_reply)
   /\ ~RaisedIn(call.design_reply)) => call.result.success

\* C13: an analysis answer that is not JSON makes the planner decide the
\* default, provider aws in region us-east-1, and return a successful plan;
\* the plan fails only when a later request to the Oracle itself raises.
C13_NotJsonFallsBackToDefault ==
  (call.fn = "plan_infrastructure" /\ call.analysis_reply = NotJson) =>
     IF RaisedIn(call.service_reply) \/ RaisedIn(call.design_reply)
     THEN call.result = [success |-> FALSE, error |-> "oracle unavailable"]
     ELSE /\ call.result.success
          /\ call.result.cloud_provider = "aws"
          /\ call.result.region = "us-east-1"
          /\ call.result.requirements_analysis =
                [app_type |-> "general", components |-> <<>>, scale |-> "medium"]

\* the planner was given an analysis answer that is not JSON and planned aws
C13_Witness ==
  /\ call.fn = "plan_infrastructure"
  /\ call.analysis_reply = NotJson
  /\ call.result.success
  /\ call.result.cloud_provider = "aws"

\* C14: the code generator returns a failure and writes no file when the tool
\* is none of terraform, cloudformation, pulumi.
C14_UnknownDialectFails ==
  /\ (call.fn = "generate_iac" /\ call.config.iac_tool \notin Dialects) =>
        ~call.result.success
  /\ \A path \in DOMAIN files :
        path.dir = "generated_code" => path.file.tool \in Dialects

\* C20: one invocation of plan_infrastructure sends exactly one request to
\* the Oracle, whatever the Oracle answers.
C20_OneOracleRequestPerPlan ==
  call.fn = "plan_infrastructure" => call.requests = 1

\* C15: when the diagram fails after the code was generated the run is not
\* aborted: it returns success, its record is appended to the history with
\* the failed diagram payload in its steps, the summary has no diagram text
\* and no HTML preview, and no viewer file is written.
C15_DiagramFailureIsSoft ==
  [][("diagram" \in run'.failed /\ "diagram" \notin run.failed) =>
       /\ pc' = "respond"
       /\ run'.result.success
       /\ Len(workflow_history') = Len(workflow_history) + 1
       /\ workflow_history'[Len(workflow_history')] = run'.result
       /\ run'.result.steps._5_diagram_generation =
             [success |-> FALSE, error |-> run'.diagram_result.error]
       /\ run'.result.steps._4_iac_generation.success
       /\ run'.result.summary.mermaid_diagram = Nil
       /\ run'.result.summary.html_preview = Nil
       /\ files' = files]_vars

\* a run whose diagram failed is about to answer
C15_Witness ==
  /\ pc = "respond"
  /\ "diagram" \in run.failed
  /\ run.iac_result.success

InRun == pc \in {"plan", "cost", "refine", "iac", "diagram"}

\* C16: whatever the stages do (succeed, report failure, raise), a started
\* execute_intelligent_workflow reaches its return, and what it returns is
\* a record of the run whose success is true or false.
C16_RunTerminates ==
  /\ [](pc = "respond" =>
          /\ run.result.success \in BOOLEAN
          /\ run.result.workflow_id = run.workflow_id)
  /\ (InRun ~> pc = "respond")

\* a run in which a stage raised returns an error record
C16_Witness ==
  /\ pc = "respond"
  /\ run.result.success = FALSE
  /\ run.result.error = "Intelligent workflow execution failed"

\* C17: the record returned has a summary exactly when it is a success; the
\* summary then holds the planner's provider and region, the number of
\* services planned, the savings of the cost stage (0 when it was
\* defaulted) and the code generator's file.
C17_SummaryIffSuccess ==
  pc = "respond" =>
    /\ ("summary" \in DOMAIN run.result) <=> run.result.success
    /\ run.result.success =>
          /\ run.result.summary.cloud_provider = run.plan_result.cloud_provider
          /\ run.result.summary.region = run.plan_result.region
          /\ run.result.summary.services_count =
                Len(run.plan_result.service_plan.services)
          /\ run.result.summary.estimated_savings =
                IF "cost" \in run.failed THEN 0
                ELSE run.result.steps._2_cost_optimization.estimated_monthly_savings
          /\ run.result.summary.code_file = run.iac_result.filename
          /\ run.result.summary.code_path = run.iac_result.file_path
          /\ run.result.summary.code_path \in DOMAIN files

\* a successful run, its cost stage not defaulted, is about to answer
C17_Witness ==
  /\ pc = "respond"
  /\ run.result.success
  /\ "cost" \notin run.failed
  /\ run.result.summary.services_count = 1

\* C18: GET /workflows lists the workflows in the order they were created,
\* oldest first, from the database and from the in-memory history alike.
C18_ListedOldestFirst ==
  resp.op = "get_workflows" =>
    \A i, j \in 1..Len(resp.ids) :
      i < j => resp.ids[i].timestamp <= resp.ids[j].timestamp

\* C19: the code text a run wrote for a workflow is what GET
\* /workflows/{id}/code answers for it, whatever the text, the empty text
\* included.
C19_CodeReadBackIsWhatWasWritten ==
  LET i == FirstIn(workflow_history, resp.workflow_id)
  IN (resp.op = "get_terraform_code" /\ i > 0) =>
       /\ resp.status = 200
       /\ resp.terraform_code = files[workflow_history[i].summary.code_path]


\* C21: every stage is handed the outputs of the stages before it; the code
\* generator in particular is handed what the planner, the cost stage and the
\* service refinement produced, so that a different refinement output gives the
\* code generator a different configuration.
C21_CodeGeneratorReceivesRefinement ==
  pc = "iac" =>
    /\ IacConfig(run).cloud_provider = cloud_provider
    /\ IacConfig(run).services = services
    /\ IacConfig(run).optimization_notes = Get(run.cost_result, "strategies", {})
    /\ IacConfig([run EXCEPT !.services_result = Nil]) # IacConfig(run)


Implemented ==
  {<<"terraform", "aws">>, <<"terraform", "azure">>, <<"terraform", "gcp">>,
   <<"cloudformation", "aws">>, <<"pulumi", "aws">>}

\* C22: the template generator succeeds, with code and a file name, exactly for
\* the implemented combinations of dialect and provider (the disk permitting);
\* any other combination is answered with a failure and no file is written.
C22_OnlyImplementedCombinationsSucceed ==
  (call.fn = "generate_iac_code" /\ call.disk) =>
    LET combination == <<Lower(call.requirements.iac_type),
                         Lower(call.requirements.cloud_provider)>>
    IN /\ call.result.success <=> combination \in Implemented
       /\ call.result.success => call.result.code # <<>>
       /\ combination \notin Implemented =>
            \A path \in DOMAIN files :
              ~(path.file.tool = combination[1] /\ path.file.provider = combination[2])


\* the part of the messages sent that comes from the conversation history
SentHistory(messages) ==
  LET first == IF messages[2].role = "system" THEN 3 ELSE 2
  IN SubSeq(messages, first, Len(messages) - 1)

\* the history as it was when the last chat was called
HistoryBefore ==
  IF resp.body.success
  THEN SubSeq(conversation_history, 1, Len(conversation_history) - 2)
  ELSE conversation_history

LastChatAnswered == resp.op = "vishu_chat" /\ resp.status = 200 /\ call.fn = "chat"

\* C23: a chat sends the Oracle the last ten messages of the conversation, in
\* their order, whatever workflow they were exchanged for, and the conversation
\* that is kept never holds more than those ten messages.
C23_HistoryStaysWithinWindow ==
  /\ LastChatAnswered =>
       /\ SentHistory(call.messages) = LastN(HistoryBefore, Window)
       /\ Len(SentHistory(call.messages)) <= Window
  /\ Len(conversation_history) <= Window

\* C24: no operation of the Advisor and no edit changes a stored workflow
\* record, and the versions table changes only by one row being appended.
C24_WorkflowRecordsAreNotTouched ==
  [][/\ dbWorkflows' = dbWorkflows
     /\ workflow_history' = workflow_history
     /\ code_versions' # code_versions =>
          /\ Len(code_versions') = Len(code_versions) + 1
          /\ SubSeq(code_versions', 1, Len(code_versions)) = code_versions]_vars

\* an analysis has been answered after a chat and the records are as stored
C24_Witness ==
  /\ resp.op = "vishu_analyze_workflow"
  /\ resp.status = 200
  /\ conversation_history # <<>>
  /\ dbWorkflows = {StoredRow, EarlierRow}

Alternates(history) ==
  /\ Len(history) % 2 = 0
  /\ \A i \in 1..Len(history) :
       history[i].role = IF i % 2 = 1 THEN "user" ELSE "assistant"

\* C30: the conversation history changes only by a chat that succeeds, which
\* appends the user's message and then the reply (or by being cleared); a chat
\* whose Oracle call fails leaves it as it was; so its length is even and its
\* roles alternate user, assistant.
C30_HistoryChangesOnlyOnSuccess ==
  [][/\ conversation_history' # conversation_history =>
          \/ conversation_history' = <<>>
          \/ /\ resp'.op = "vishu_chat"
             /\ resp'.status = 200
             /\ resp'.body.success
             /\ conversation_history' =
                  conversation_history \o
                  <<[role |-> "user", content |-> call'.message],
                    [role |-> "assistant", content |-> resp'.body.message]>>
     /\ (call' # call /\ call'.fn = "chat" /\ ~resp'.body.success) =>
          conversation_history' = conversation_history
     /\ Alternates(conversation_history')]_vars

\* a chat has failed after two that succeeded
C30_Witness ==
  /\ LastChatAnswered
  /\ ~resp.body.success
  /\ Len(conversation_history) >= 4


\* the constants of the claim, summed over the categories of a service list
RECURSIVE SumOfCredits(_)
SumOfCredits(list) ==
  IF list = <<>> THEN 0
  ELSE LET category == Get(Head(list), "category", "")
       IN (CASE category = "compute" -> 500
             [] category = "storage" -> 200
             [] category = "database" -> 300
             [] category = "networking" -> 150
             [] OTHER -> 0) + SumOfCredits(Tail(list))

\* C25: the savings that the cost stage reports are the sum, over the services
\* it was given, of the constant of each service's category (compute 500,
\* storage 200, database 300, networking 150, otherwise 0), whatever the
\* Oracle answered.
C25_SavingsSumTheCategories ==
  (pc = "refine" /\ "estimated_monthly_savings" \in DOMAIN run.cost_result) =>
    run.cost_result.estimated_monthly_savings = SumOfCredits(services)


\* C26: a text that does not start with a fence comes back trimmed and
\* otherwise unchanged; one that starts with a fence loses that line, and its
\* last line if that is a fence; what comes back never starts with a fence,
\* and cleaning it again changes nothing.
C26_CleanedTextHasNoLeadingFence ==
  call.fn = "_clean_code" =>
    LET code == call.code
        result == call.result
    IN /\ (code = <<>> \/ ~StartsWithFence(code[1])) => result = Strip(code)
       /\ (code # <<>> /\ StartsWithFence(code[1])) =>
            result = Strip(IF Len(code) > 1 /\ StartsWithFence(code[Len(code)])
                           THEN SubSeq(code, 2, Len(code) - 1)
                           ELSE Tail(code))
       /\ result = <<>> \/ ~StartsWithFence(result[1])
       /\ _clean_code(result) = result


\* C27: a run whose code generator has succeeded ends as a success and is
\* appended to the history, whatever happens in the diagram stage.
C27_NothingFailsAfterTheCode ==
  (pc = "respond" /\ "success" \in DOMAIN run.iac_result /\ run.iac_result.success) =>
    /\ run.result.success
    /\ run.alias > 0
    /\ workflow_history[run.alias] = run.result


\* the text of the version stored last for a workflow (the highest number)
LatestText(workflow_id) ==
  LET idx == {i \in 1..Len(code_versions) : code_versions[i].workflow_id = workflow_id}
      last == CHOOSE i \in idx : \A j \in idx : code_versions[j].version <= code_versions[i].version
  IN code_versions[last].terraform_code

\* C28: whatever edits have been asked for, the code file of a stored workflow
\* holds the text of its highest version, or the generated text when it has no
\* version; an edit that is answered with an error changes neither the file
\* nor the versions.
C28_FileIsTheLatestVersion ==
  [][/\ \A w \in dbWorkflows' :
          files'[w.code_path] = IF VersionsOf(w.workflow_id)' = {}
                                THEN GeneratedFiles[w.code_path]
                                ELSE LatestText(w.workflow_id)'
     /\ (resp' # resp /\ resp'.op \in EditOps /\ resp'.status # 200) =>
          files' = files /\ code_versions' = code_versions]_vars

\* an edit that nothing hinders has been answered with an error
C28_Witness ==
  /\ resp.op \in EditOps
  /\ resp.valid
  /\ resp.status = 500
  /\ files[StoredRow.code_path] = GeneratedFiles[StoredRow.code_path]

\* what GET .../code reports as current_version when the versions are vs
Reported(vs) == IF vs = {} THEN 1 ELSE CHOOSE v \in vs : \A u \in vs : u <= v

====
